---- MODULE Spec2Model ----
(***************************************************************************)
(* Abstract interpretation of halo2 gate expressions                       *)
(* (korrekt/src/circuit_analyzer/abstract_expr.rs): extract_columns and    *)
(* eval_abstract, as pure functions applied to inputs drawn from bounded   *)
(* sets.                                                                   *)
(*                                                                         *)
(* Field elements.  The field F is a prime field of about 255 bits         *)
(* (pasta::Fp in main.rs).  An element is written here as an integer n of  *)
(* small absolute value which stands for the residue n mod p; sums,        *)
(* products and negations of such integers are the field operations as     *)
(* long as the results stay far below p, which the bounds guarantee.  The  *)
(* canonical representative of a negative n is p - |n|, a 255-bit number;  *)
(* ToRepr computes its 64 hexadecimal digits exactly.                      *)
(*                                                                         *)
(* Machine integers.  u64 values that do not fit a TLC integer are kept    *)
(* exactly: the parse accumulator of u64::from_str_radix is a sequence of  *)
(* 16 hexadecimal digits, a usize index is a pair (wrap, off) standing for *)
(* wrap * 2^64 + off.                                                      *)
(***************************************************************************)
EXTENDS Integers, Sequences, FiniteSets, TLC

VARIABLES expr, selectors, region_begin, region_end, row_num, fixed, overflow_checks, eval_result, column_set

vars == <<expr, selectors, region_begin, region_end, row_num, fixed, overflow_checks, eval_result, column_set>>

(***************************************************************************)
(* Bounds of the model.                                                    *)
(***************************************************************************)
\* field elements drawn as inputs are -MaxConst .. MaxConst (mod p)
MaxConst == 1
\* rotations of a query are -MaxRot .. MaxRot, and so is the current row
MaxRot == 1
\* a region begins at a row 0 .. MaxRegionBegin
MaxRegionBegin == 1
\* rows of a fixed column
NumRows == 2

(***************************************************************************)
(* Widths.                                                                 *)
(***************************************************************************)
\* hexadecimal digits of the Debug text of a field element (32 bytes)
ReprLen == 64
\* hexadecimal digits of a u64
U64Len == 16

\* the modulus p of pasta::Fp,
\* 0x40000000000000000000000000000000224698fc094cf91b992d30ed00000001
Modulus ==
    <<4,0,0,0,0,0,0,0, 0,0,0,0,0,0,0,0, 0,0,0,0,0,0,0,0, 0,0,0,0,0,0,0,0,
      2,2,4,6,9,8,15,12, 0,9,4,12,15,9,1,11, 9,9,2,13,3,0,14,13, 0,0,0,0,0,0,0,1>>

HexChars == <<"0","1","2","3","4","5","6","7","8","9","a","b","c","d","e","f">>

(***************************************************************************)
(* Results: Ok(value), Err(context chain), or a panic (the call aborts).   *)
(***************************************************************************)
OkR(v) == [kind |-> "Ok", val |-> v, ctx |-> <<>>]

ErrR(chain) == [kind |-> "Err", val |-> "None", ctx |-> chain]

PanicR(why) == [kind |-> "Panic", val |-> why, ctx |-> <<>>]

NotCalled == [kind |-> "NotCalled", val |-> "None", ctx |-> <<>>]

(***************************************************************************)
(* format!("{:?}", fixed_val): "0x" and the 64 hexadecimal digits of the   *)
(* canonical representative, most significant first.                       *)
(***************************************************************************)
\* the len digits of a natural n; n is below 2^31 < 16^8 here, so the digits
\* from the ninth on are 0
NatToNibbles(n, len) ==
    [i \in 1..len |-> IF len - i >= 8 THEN 0 ELSE (n \div (16 ^ (len - i))) % 16]

\* the digits of s - k, for a digit sequence s and a natural k <= s
RECURSIVE SubNat(_, _)
SubNat(s, k) ==
    IF Len(s) = 0 \/ k = 0 THEN s
    ELSE LET d == s[Len(s)] - (k % 16)
             borrow == IF d < 0 THEN 1 ELSE 0
         IN  SubNat(SubSeq(s, 1, Len(s) - 1), (k \div 16) + borrow) \o <<(d + 16) % 16>>

ToRepr(v) == IF v >= 0 THEN NatToNibbles(v, ReprLen) ELSE SubNat(Modulus, -v)

DebugFormat(v) == <<"0", "x">> \o [i \in 1..ReprLen |-> HexChars[ToRepr(v)[i] + 1]]

\* str::strip_prefix: Some(rest) or None
StripPrefix(s, prefix) ==
    IF Len(s) >= Len(prefix) /\ SubSeq(s, 1, Len(prefix)) = prefix
    THEN [some |-> TRUE, rest |-> SubSeq(s, Len(prefix) + 1, Len(s))]
    ELSE [some |-> FALSE, rest |-> <<>>]

(***************************************************************************)
(* u64::from_str_radix(digits, 16), the accumulator a u64 of 16 nibbles    *)
(***************************************************************************)
\* char::to_digit(16): the digit, or -1
ToDigit(ch) ==
    IF \E d \in 1..16 : HexChars[d] = ch
    THEN (CHOOSE d \in 1..16 : HexChars[d] = ch) - 1
    ELSE -1

U64Zero == [i \in 1..U64Len |-> 0]

\* u64::checked_mul(acc, 16)
CheckedMul16(acc) ==
    IF acc[1] # 0 THEN [ok |-> FALSE, v |-> acc]
    ELSE [ok |-> TRUE, v |-> SubSeq(acc, 2, U64Len) \o <<0>>]

\* the digits of acc + d with the carry out of the top digit
RECURSIVE AddNat(_, _)
AddNat(s, k) ==
    IF Len(s) = 0 \/ k = 0 THEN [carry |-> k, v |-> s]
    ELSE LET t == s[Len(s)] + k
             up == AddNat(SubSeq(s, 1, Len(s) - 1), t \div 16)
         IN  [carry |-> up.carry, v |-> up.v \o <<t % 16>>]

\* u64::checked_add(acc, d)
CheckedAdd(acc, d) ==
    LET r == AddNat(acc, d) IN [ok |-> r.carry = 0, v |-> r.v]

\* one turn of the digit loop: checked_mul by the radix, to_digit, checked_add
ParseStep(st, ch) ==
    LET mul == CheckedMul16(st.v)
        x == ToDigit(ch)
        sum == CheckedAdd(mul.v, x)
    IN  IF ~st.ok THEN st
        ELSE IF x < 0 THEN [ok |-> FALSE, err |-> "InvalidDigit", v |-> st.v]
        ELSE IF ~mul.ok \/ ~sum.ok THEN [ok |-> FALSE, err |-> "PosOverflow", v |-> st.v]
        ELSE [ok |-> TRUE, err |-> "None", v |-> sum.v]

\* the loop over digits[lo..hi], in order, from the state st, left at the first
\* error (the range is split in halves to keep the evaluation shallow)
RECURSIVE ParseLoop(_, _, _, _)
ParseLoop(st, digits, lo, hi) ==
    IF lo > hi THEN st
    ELSE IF lo = hi THEN ParseStep(st, digits[lo])
    ELSE LET mid == (lo + hi) \div 2
             left == ParseLoop(st, digits, lo, mid)
         IN  IF ~left.ok THEN left ELSE ParseLoop(left, digits, mid + 1, hi)

FromStrRadix16(digits) ==
    IF Len(digits) = 0 THEN [ok |-> FALSE, err |-> "Empty", v |-> U64Zero]
    ELSE ParseLoop([ok |-> TRUE, err |-> "None", v |-> U64Zero], digits, 1, Len(digits))

(***************************************************************************)
(* Cells of the fixed table.                                               *)
(***************************************************************************)
Unassigned == [cell |-> "Unassigned", value |-> 0]

Poisoned == [cell |-> "Poisoned", value |-> 0]

Assigned(v) == [cell |-> "Assigned", value |-> v]

\* lines 87-95: the abstract value of a fixed cell
ReadCell(c) ==
    LET stripped == StripPrefix(DebugFormat(c.value), <<"0", "x">>)
        parsed == FromStrRadix16(stripped.rest)
    IN  IF c.cell = "Assigned" /\ ~stripped.some THEN PanicR("unwrap on None")
        ELSE IF c.cell = "Assigned" /\ ~parsed.ok THEN PanicR("unwrap on Err")
        ELSE LET t == IF c.cell = "Assigned" THEN parsed.v ELSE U64Zero
             IN  IF t = U64Zero THEN OkR("Zero") ELSE OkR("Variable")

(***************************************************************************)
(* Expressions (halo2 Expression<F>, a build with the Challenge variant    *)
(* and with advice phases).                                                *)
(***************************************************************************)
Constant(v) == [tag |-> "Constant", value |-> v]

Selector(s) == [tag |-> "Selector", selector |-> s]

Fixed(col, rot) == [tag |-> "Fixed", column_index |-> col, rotation |-> rot]

Advice(col, rot, ph) == [tag |-> "Advice", column_index |-> col, rotation |-> rot, phase |-> ph]

Instance(col, rot) == [tag |-> "Instance", column_index |-> col, rotation |-> rot]

Challenge(c) == [tag |-> "Challenge", index |-> c]

Negated(e) == [tag |-> "Negated", inner |-> e]

Sum(l, r) == [tag |-> "Sum", left |-> l, right |-> r]

Product(l, r) == [tag |-> "Product", left |-> l, right |-> r]

Scaled(e, k) == [tag |-> "Scaled", inner |-> e, scale |-> k]

(***************************************************************************)
(* extract_columns                                                         *)
(***************************************************************************)
\* Column<Any> of an advice query
AdviceColumn(q) ==
    [index |-> q.column_index, column_type |-> [kind |-> "Advice", phase |-> q.phase]]

RECURSIVE recursion(_, _)

\* recursion with the right operand of a Product left out
recursion_left_product(dst, e) ==
    CASE e.tag = "Advice" -> dst \cup {<<AdviceColumn(e), e.rotation>>}
      [] e.tag = "Sum" -> recursion(recursion(dst, e.left), e.right)
      [] e.tag = "Product" -> recursion(dst, e.left)
      [] e.tag = "Negated" -> recursion(dst, e.inner)
      [] e.tag = "Scaled" -> recursion(dst, e.inner)
      [] OTHER -> dst

\* fn recursion(dst, expr): dst after the walk
recursion(dst, e) ==
    CASE e.tag = "Advice" -> dst \cup {<<AdviceColumn(e), e.rotation>>}
      [] e.tag = "Sum" -> recursion(recursion(dst, e.left), e.right)
      [] e.tag = "Product" -> recursion(recursion(dst, e.left), e.right)
      [] e.tag = "Negated" -> recursion(dst, e.inner)
      [] e.tag = "Scaled" -> recursion(dst, e.inner)
      [] OTHER -> dst

extract_columns(e) == recursion({}, e)

(***************************************************************************)
(* eval_abstract                                                           *)
(***************************************************************************)
\* v.is_zero()
IsZero(v) == v = 0

\* (i as usize) of an i32: the bits sign-extended, 2^64 + i when i < 0
AsUsize(i) == IF i >= 0 THEN [wrap |-> 0, off |-> i] ELSE [wrap |-> 1, off |-> i]

\* x + n on usize: past 2^64 the addition panics in a build with overflow
\* checks and wraps in a build without
UsizeAdd(x, n) ==
    IF x.wrap = 1 /\ x.off + n >= 0
    THEN IF overflow_checks THEN [ok |-> FALSE, wrap |-> 0, off |-> 0]
         ELSE [ok |-> TRUE, wrap |-> 0, off |-> x.off + n]
    ELSE [ok |-> TRUE, wrap |-> x.wrap, off |-> x.off + n]

\* line 85: (rotation + row_num) as usize + region_begin; the i32 sum of a
\* rotation and a row of the model is far from the ends of the i32 range
FixedRow(rot, row, begin) == UsizeAdd(AsUsize(rot + row), begin)

\* vec[i], i a usize value: in bounds or not
InBounds(vec, i) == i.wrap = 0 /\ i.off < Len(vec)

\* lines 70-76
EvalConstant(v) == IF IsZero(v) THEN OkR("Zero") ELSE OkR("NonZero")

\* EvalSelector with the selector taken as active everywhere
EvalSelectorAlwaysActive(s, sels) == OkR("NonZero")

\* lines 77-80
EvalSelector(s, sels) == IF s \in sels THEN OkR("NonZero") ELSE OkR("Zero")

\* lines 81-96
EvalFixed(q, begin, row, fx) ==
    LET col == q.column_index
        r == FixedRow(q.rotation, row, begin)
    IN  IF ~r.ok THEN PanicR("attempt to add with overflow")
        ELSE IF col >= Len(fx) THEN PanicR("index out of bounds")
        ELSE IF ~InBounds(fx[col + 1], r) THEN PanicR("index out of bounds")
        ELSE ReadCell(fx[col + 1][r.off + 1])

\* SumTable with a sum of two non-zero values taken as non-zero
SumTableNoCancellation(res1, res2) ==
    CASE res1 = "Variable" -> "Variable"
      [] res2 = "Variable" -> "Variable"
      [] res1 = "NonZero" /\ res2 = "NonZero" -> "NonZero"
      [] res1 = "Zero" /\ res2 = "Zero" -> "Zero"
      [] res1 = "Zero" /\ res2 = "NonZero" -> "NonZero"
      [] res1 = "NonZero" /\ res2 = "Zero" -> "NonZero"

\* SumTable with the two mixed rows lost: only equal Zero operands are decided
SumTableMixedVariable(res1, res2) ==
    IF res1 = "Zero" /\ res2 = "Zero" THEN "Zero" ELSE "Variable"

\* lines 109-116
SumTable(res1, res2) ==
    CASE res1 = "Variable" -> "Variable"
      [] res2 = "Variable" -> "Variable"
      [] res1 = "NonZero" /\ res2 = "NonZero" -> "Variable"
      [] res1 = "Zero" /\ res2 = "Zero" -> "Zero"
      [] res1 = "Zero" /\ res2 = "NonZero" -> "NonZero"
      [] res1 = "NonZero" /\ res2 = "Zero" -> "NonZero"

\* ProductTable with the Variable rows matched first: Zero no longer absorbs
ProductTableVariableFirst(res1, res2) ==
    CASE res1 = "Variable" -> "Variable"
      [] res2 = "Variable" -> "Variable"
      [] res1 = "Zero" -> "Zero"
      [] res2 = "Zero" -> "Zero"
      [] OTHER -> "NonZero"

\* lines 127-132
ProductTable(res1, res2) ==
    CASE res1 = "Zero" -> "Zero"
      [] res2 = "Zero" -> "Zero"
      [] res1 = "NonZero" /\ res2 = "NonZero" -> "NonZero"
      [] OTHER -> "Variable"

\* the text of a context message: the two operators' formats differ
ContextMessage(op, begin, end, row) ==
    [op |-> op, region_begin |-> begin, region_end |-> end, row |-> row]

\* .with_context(..): an error is wrapped in the message, anything else kept
WithContext(res, msg) ==
    IF res.kind = "Err" THEN ErrR(<<msg>> \o res.ctx) ELSE res

\* EvalChallenge with the challenge approximated by an unknown value
EvalChallengeApproximated(c) == OkR("Variable")

\* line 142
EvalChallenge(c) ==
    ErrR(<<"Challenge expression in abstract evaluation resulted in Invalid Expression">>)

RECURSIVE eval_abstract(_, _, _, _, _, _)

\* lines 100-117: `?` returns the error (a panic unwinds) before the right
\* operand is evaluated
EvalSum(e, sels, begin, end, row, fx) ==
    LET msg == ContextMessage("Sum", begin, end, row)
        res1 == WithContext(eval_abstract(e.left, sels, begin, end, row, fx), msg)
        res2 == WithContext(eval_abstract(e.right, sels, begin, end, row, fx), msg)
    IN  IF res1.kind # "Ok" THEN res1
        ELSE IF res2.kind # "Ok" THEN res2
        ELSE OkR(SumTable(res1.val, res2.val))

\* EvalProduct deciding on a Zero left operand before the right one is looked at
EvalProductShortCircuit(e, sels, begin, end, row, fx) ==
    LET msg == ContextMessage("Product", begin, end, row)
        res1 == WithContext(eval_abstract(e.left, sels, begin, end, row, fx), msg)
        res2 == WithContext(eval_abstract(e.right, sels, begin, end, row, fx), msg)
    IN  IF res1.kind # "Ok" THEN res1
        ELSE IF res1.val = "Zero" THEN OkR("Zero")
        ELSE IF res2.kind # "Ok" THEN res2
        ELSE OkR(ProductTable(res1.val, res2.val))

\* lines 118-133
EvalProduct(e, sels, begin, end, row, fx) ==
    LET msg == ContextMessage("Product", begin, end, row)
        res1 == WithContext(eval_abstract(e.left, sels, begin, end, row, fx), msg)
        res2 == WithContext(eval_abstract(e.right, sels, begin, end, row, fx), msg)
    IN  IF res1.kind # "Ok" THEN res1
        ELSE IF res2.kind # "Ok" THEN res2
        ELSE OkR(ProductTable(res1.val, res2.val))

\* lines 134-140
EvalScaled(e, sels, begin, end, row, fx) ==
    IF IsZero(e.scale) THEN OkR("Zero")
    ELSE eval_abstract(e.inner, sels, begin, end, row, fx)

eval_abstract(e, sels, begin, end, row, fx) ==
    CASE e.tag = "Constant" -> EvalConstant(e.value)
      [] e.tag = "Selector" -> EvalSelector(e.selector, sels)
      [] e.tag = "Fixed" -> EvalFixed(e, begin, row, fx)
      [] e.tag = "Advice" -> OkR("Variable")
      [] e.tag = "Instance" -> OkR("Variable")
      [] e.tag = "Negated" -> eval_abstract(e.inner, sels, begin, end, row, fx)
      [] e.tag = "Sum" -> EvalSum(e, sels, begin, end, row, fx)
      [] e.tag = "Product" -> EvalProduct(e, sels, begin, end, row, fx)
      [] e.tag = "Scaled" -> EvalScaled(e, sels, begin, end, row, fx)
      [] e.tag = "Challenge" -> EvalChallenge(e.index)

(***************************************************************************)
(* Inputs.                                                                 *)
(***************************************************************************)
FieldVals == (0 - MaxConst)..MaxConst

Rotations == (0 - MaxRot)..MaxRot

SelectorIds == {0}

CellValues == {Unassigned, Poisoned, Assigned(0), Assigned(1), Assigned(-1)}

\* Vec<Vec<CellValue<F>>>: one fixed column of NumRows rows
FixedTables == {<<column>> : column \in [1..NumRows -> CellValues]}

\* the queries of a fixed column, and of a column the table does not have
FixedQueries == {Fixed(c, r) : c \in 0..1, r \in Rotations}

AdviceQueries == {Advice(0, 0, 0), Advice(1, 0, 0)}

InstanceQueries == {Instance(0, 0)}

Leaves ==
    {Constant(v) : v \in FieldVals} \cup {Selector(s) : s \in SelectorIds}
        \cup {Fixed(0, r) : r \in Rotations} \cup AdviceQueries \cup InstanceQueries
        \cup {Challenge(0)}

\* the leaves used as the second operand of the deeper expressions
CoreLeaves ==
    {Constant(0), Constant(1), Selector(0), Fixed(0, 0), Advice(0, 0, 0), Challenge(0)}

\* the expressions with one operator over A, binary ones with an operand of B
Over(A, B) ==
    {Negated(e) : e \in A} \cup {Scaled(e, k) : e \in A, k \in FieldVals}
        \cup {Sum(l, r) : l \in A, r \in B} \cup {Sum(l, r) : l \in B, r \in A}
        \cup {Product(l, r) : l \in A, r \in B} \cup {Product(l, r) : l \in B, r \in A}

Level1 == Leaves \cup Over(Leaves, Leaves)

Level2 == Level1 \cup Over(Level1, CoreLeaves)

\* gates selector * (a - b)
SelectorGates ==
    {Product(Selector(s), Sum(a, Negated(b))) : s \in SelectorIds, a \in AdviceQueries, b \in AdviceQueries}

Expressions == Level2 \cup SelectorGates

(***************************************************************************)
(* The calls.                                                              *)
(***************************************************************************)
InitWith(E, T, B, R) ==
    /\ expr \in E
    /\ selectors \in SUBSET SelectorIds
    /\ region_begin \in B
    /\ region_end = region_begin + 1
    /\ row_num \in R
    /\ fixed \in T
    /\ overflow_checks \in BOOLEAN
    /\ eval_result = NotCalled
    /\ column_set = <<>>

\* expression trees over one table, the region beginning at row 1
Init == InitWith(Expressions, {<<<<Assigned(0), Assigned(1)>>>>}, {1}, {0})

\* fixed queries over every table, region and row
InitFixed == InitWith(FixedQueries, FixedTables, 0..MaxRegionBegin, Rotations)

CallEvalAbstract ==
    /\ eval_result = NotCalled
    /\ eval_result' = eval_abstract(expr, selectors, region_begin, region_end, row_num, fixed)
    /\ UNCHANGED <<expr, selectors, region_begin, region_end, row_num, fixed, overflow_checks, column_set>>

CallExtractColumns ==
    /\ column_set = <<>>
    /\ column_set' = <<extract_columns(expr)>>
    /\ UNCHANGED <<expr, selectors, region_begin, region_end, row_num, fixed, overflow_checks, eval_result>>

Next == CallEvalAbstract \/ CallExtractColumns

Spec == Init /\ [][Next]_vars

SpecFixed == InitFixed /\ [][Next]_vars

(***************************************************************************)
(* What the claims speak of.                                               *)
(***************************************************************************)
Called == eval_result # NotCalled

\* the absolute row of a fixed query: region_begin + row + rot
AbsoluteRow == region_begin + row_num + expr.rotation

\* the query is a fixed query whose absolute row is a row of its column
FixedResolves ==
    /\ expr.tag = "Fixed"
    /\ expr.column_index < Len(fixed)
    /\ AbsoluteRow >= 0
    /\ AbsoluteRow < Len(fixed[expr.column_index + 1])

ResolvedCell == fixed[expr.column_index + 1][AbsoluteRow + 1]

Eval(e) == eval_abstract(e, selectors, region_begin, region_end, row_num, fixed)

\* the nodes of an expression tree
RECURSIVE Nodes(_)
Nodes(e) ==
    {e} \cup
        CASE e.tag \in {"Sum", "Product"} -> Nodes(e.left) \cup Nodes(e.right)
          [] e.tag \in {"Negated", "Scaled"} -> Nodes(e.inner)
          [] OTHER -> {}

\* a Challenge node that is not below a Scaled node of scale zero
RECURSIVE LiveChallenge(_)
LiveChallenge(e) ==
    CASE e.tag = "Challenge" -> TRUE
      [] e.tag \in {"Sum", "Product"} -> LiveChallenge(e.left) \/ LiveChallenge(e.right)
      [] e.tag = "Negated" -> LiveChallenge(e.inner)
      [] e.tag = "Scaled" -> e.scale # 0 /\ LiveChallenge(e.inner)
      [] OTHER -> FALSE

(***************************************************************************)
(* Concrete evaluation: the value of an expression in the field, the       *)
(* advice and instance cells taking the values adv and inst, a selector 1  *)
(* when active and 0 when not, a fixed query the value assigned to its     *)
(* cell.  It has no value when a fixed query has no assigned cell.         *)
(***************************************************************************)
Val(v) == [def |-> TRUE, v |-> v]

NoVal == [def |-> FALSE, v |-> 0]

ConcreteFixed(q) ==
    LET r == region_begin + row_num + q.rotation
    IN  IF /\ q.column_index < Len(fixed)
           /\ r >= 0
           /\ r < Len(fixed[q.column_index + 1])
           /\ fixed[q.column_index + 1][r + 1].cell = "Assigned"
        THEN Val(fixed[q.column_index + 1][r + 1].value)
        ELSE NoVal

RECURSIVE Concrete(_, _, _)
Concrete(e, adv, inst) ==
    CASE e.tag = "Constant" -> Val(e.value)
      [] e.tag = "Selector" -> Val(IF e.selector \in selectors THEN 1 ELSE 0)
      [] e.tag = "Fixed" -> ConcreteFixed(e)
      [] e.tag = "Advice" -> Val(adv[e])
      [] e.tag = "Instance" -> Val(inst[e])
      [] e.tag = "Negated" ->
            LET a == Concrete(e.inner, adv, inst)
            IN  IF a.def THEN Val(0 - a.v) ELSE NoVal
      [] e.tag = "Scaled" ->
            LET a == Concrete(e.inner, adv, inst)
            IN  IF a.def THEN Val(a.v * e.scale) ELSE NoVal
      [] e.tag = "Sum" ->
            LET a == Concrete(e.left, adv, inst)
                b == Concrete(e.right, adv, inst)
            IN  IF a.def /\ b.def THEN Val(a.v + b.v) ELSE NoVal
      [] e.tag = "Product" ->
            LET a == Concrete(e.left, adv, inst)
                b == Concrete(e.right, adv, inst)
            IN  IF a.def /\ b.def THEN Val(a.v * b.v) ELSE NoVal
      [] OTHER -> NoVal

(***************************************************************************)
(* The claims.                                                             *)
(***************************************************************************)

\* C1: eval_abstract on a Fixed query whose resolved cell is Unassigned or
\* Poisoned never returns Ok(Zero) or any other abstract value (it fails with
\* an error instead).
C1_UnassignedFixedCellIsNoValue ==
    (Called /\ FixedResolves /\ ResolvedCell.cell # "Assigned")
        => eval_result.kind # "Ok"

\* C2: for every field element v stored as Assigned(v) in the resolved fixed
\* cell, also those of representative 2^64 or larger, eval_abstract returns
\* Ok(Zero) when v is zero and Ok(Variable) otherwise; it never returns
\* NonZero, fails or aborts.  (Stated for the queries whose rotation + row is
\* not negative; the others are C7's.)
C2_AssignedFixedCellIsZeroOrVariable ==
    (Called /\ FixedResolves /\ expr.rotation + row_num >= 0 /\ ResolvedCell.cell = "Assigned")
        => eval_result = OkR(IF ResolvedCell.value = 0 THEN "Zero" ELSE "Variable")

\* C3: the abstract result is never wrong: whenever eval_abstract returns
\* Zero the expression has the value 0 under every assignment of field
\* values to the advice and instance cells, and whenever it returns NonZero
\* the value is not 0.
C3_AbstractResultSound ==
    (Called /\ eval_result.kind = "Ok" /\ eval_result.val \in {"Zero", "NonZero"})
        => \A adv \in [AdviceQueries -> FieldVals], inst \in [InstanceQueries -> FieldVals] :
              LET c == Concrete(expr, adv, inst)
              IN  c.def => /\ eval_result.val = "Zero" => c.v = 0
                           /\ eval_result.val = "NonZero" => c.v # 0

C3_Witness ==
    /\ expr = Sum(Product(Constant(-1), Selector(0)), Constant(0))
    /\ selectors = {0}
    /\ eval_result = OkR("NonZero")
    /\ \A adv \in [AdviceQueries -> FieldVals], inst \in [InstanceQueries -> FieldVals] :
          Concrete(expr, adv, inst) = Val(-1)

\* C4: for Sum(l, r) with both operands evaluating without error the result
\* is the table's: Variable if either operand is Variable, Variable for
\* (NonZero, NonZero), Zero for (Zero, Zero), NonZero for (Zero, NonZero) and
\* (NonZero, Zero).
C4_SumTable ==
    (Called /\ expr.tag = "Sum" /\ Eval(expr.left).kind = "Ok" /\ Eval(expr.right).kind = "Ok")
        => LET l == Eval(expr.left).val
               r == Eval(expr.right).val
           IN  eval_result =
                   OkR(IF l = "Variable" \/ r = "Variable" THEN "Variable"
                       ELSE IF l = "NonZero" /\ r = "NonZero" THEN "Variable"
                       ELSE IF l = "Zero" /\ r = "Zero" THEN "Zero"
                       ELSE "NonZero")

C4_Witness ==
    /\ expr = Sum(Constant(1), Constant(-1))
    /\ Eval(expr.left) = OkR("NonZero")
    /\ Eval(expr.right) = OkR("NonZero")
    /\ eval_result = OkR("Variable")

\* C5: for Product(l, r) with both operands evaluating without error the
\* result is the table's: Zero if either operand is Zero (also when the other
\* is Variable), NonZero for (NonZero, NonZero), Variable for the rest.
C5_ProductTable ==
    (Called /\ expr.tag = "Product" /\ Eval(expr.left).kind = "Ok" /\ Eval(expr.right).kind = "Ok")
        => LET l == Eval(expr.left).val
               r == Eval(expr.right).val
           IN  eval_result =
                   OkR(IF l = "Zero" \/ r = "Zero" THEN "Zero"
                       ELSE IF l = "NonZero" /\ r = "NonZero" THEN "NonZero"
                       ELSE "Variable")

C5_Witness ==
    /\ expr = Product(Advice(0, 0, 0), Constant(0))
    /\ Eval(expr.left) = OkR("Variable")
    /\ Eval(expr.right) = OkR("Zero")
    /\ eval_result = OkR("Zero")

\* C6, as claimed: for every expression that contains a Challenge node
\* anywhere in its tree, under Scaled with any scale factor too, eval_abstract
\* returns no abstract value.
C6_AnyChallengeIsNoValue ==
    (Called /\ \E n \in Nodes(expr) : n.tag = "Challenge")
        => eval_result.kind # "Ok"

\* C6, amended: for every expression that contains a Challenge node which is
\* not below a Scaled node of scale zero, eval_abstract returns no abstract
\* value; it fails with the error whenever the expression has no Fixed query
\* (whose evaluation may abort before the Challenge is reached).
C6_LiveChallengeIsNoValue ==
    (Called /\ LiveChallenge(expr))
        => /\ eval_result.kind # "Ok"
           /\ (\A n \in Nodes(expr) : n.tag # "Fixed") => eval_result.kind = "Err"

C6_Witness ==
    /\ expr = Sum(Advice(0, 0, 0), Negated(Challenge(0)))
    /\ LiveChallenge(expr)
    /\ eval_result.kind = "Err"

\* C7: for a Fixed(col, rot) query eval_abstract reads the cell at absolute
\* row region_begin + row + rot, for every signed rot and row and every
\* region_begin whose sum is a row of the table, also when row + rot is
\* negative: its result is the one that cell gives.
C7_FixedReadsAbsoluteRow ==
    (Called /\ FixedResolves) => eval_result = ReadCell(ResolvedCell)

C9_InactiveSelectorGateIsZero ==
    Called
        => /\ expr.tag = "Selector"
                => eval_result = OkR(IF expr.selector \in selectors THEN "NonZero" ELSE "Zero")
           /\ (/\ expr.tag = "Product"
               /\ expr.left.tag = "Selector"
               /\ expr.left.selector \notin selectors
               /\ Eval(expr.right).kind = "Ok")
                => eval_result = OkR("Zero")

C9_Witness ==
    /\ expr = Product(Selector(0), Sum(Advice(0, 0, 0), Negated(Advice(1, 0, 0))))
    /\ selectors = {}
    /\ Eval(expr.right) = OkR("Variable")
    /\ eval_result = OkR("Zero")

\* C10: if the evaluation of either operand of a Sum or Product fails, so
\* does that of the Sum or Product, also when the other operand alone would
\* decide the table result; the left operand's error is returned (under the
\* operator's context) whatever the right operand would give.
C10_OperandErrorsPropagate ==
    (Called /\ expr.tag \in {"Sum", "Product"})
        => LET msg == [op |-> expr.tag, region_begin |-> region_begin,
                       region_end |-> region_end, row |-> row_num]
               l == Eval(expr.left)
               r == Eval(expr.right)
           IN  /\ l.kind = "Err" => eval_result = ErrR(<<msg>> \o l.ctx)
               /\ (l.kind = "Ok" /\ r.kind = "Err") => eval_result = ErrR(<<msg>> \o r.ctx)

C10_Witness ==
    /\ expr = Product(Constant(0), Challenge(0))
    /\ Eval(expr.left) = OkR("Zero")
    /\ eval_result.kind = "Err"
    /\ Len(eval_result.ctx) = 2

====
